---- MODULE Spec2Model ----
(***************************************************************************)
(* Model of the signature-to-PDF compositing pipeline of vue-pdf-signer:   *)
(* the saveDocument operation of usePdfDocument (multi-document and        *)
(* single-document variants), the signature pad composable that feeds it   *)
(* and the component state that gates it.                                  *)
(*                                                                         *)
(* JavaScript numbers are IEEE-754 binary floating-point values.  They are *)
(* modelled as records [m, e] standing for m * 2^e with a mantissa of Prec *)
(* bits and round-to-nearest, ties-to-even, after every operation.         *)
(***************************************************************************)
EXTENDS Integers, Sequences, FiniteSets, TLC

\* ------------------------------------------------------------------------
\* Bounds of the model
\* ------------------------------------------------------------------------
\* bits of a floating-point mantissa
Prec == 11
\* documents of the multi-document component
NumDocs == 2
\* largest placement width and height (cm) of the placement resolution
MaxCm == 8
\* largest width and height of the signature's box of the placement resolution
MaxBox == 27

VARIABLES
  mode,                \* "multi": PdfSigner with a documents list; "single": one document
  signingPolicy,       \* props.signingPolicy
  documents,           \* props.documents (multi) or << props.document >> (single)
  activeDocumentKey,   \* key of the selected document, NoKey for null
  newlySignedKeys,     \* keys of the documents signed in this session
  signatureSvg,        \* useSignaturePad: the stored markup or Null
  signaturePng,        \* useSignaturePad: the stored PNG data URI or Null
  isSignaturePadOpen,  \* useSignaturePad: the modal is shown
  isLocked,            \* useSignaturePad: body scroll lock
  isSaving,            \* usePdfDocument: the in-progress flag
  saves,               \* the saveDocument invocations: position and locals
  geom,                \* one placement resolution: inputs and computed boxes
  capturedFor,         \* history: the captures stored while each document
                       \* was the active one (recorded under TrackSpec only)
  render               \* usePdfRenderer: container, page list and the
                       \* loadAndRenderPdf calls

\* what the host sets, the separate placement resolution and the history
hostVars == << mode, signingPolicy, documents, geom, capturedFor, render >>

vars == << mode, signingPolicy, documents, activeDocumentKey, newlySignedKeys,
           signatureSvg, signaturePng, isSignaturePadOpen, isLocked, isSaving,
           saves, geom, capturedFor, render >>

\* ------------------------------------------------------------------------
\* Floating-point arithmetic (JavaScript Number)
\* ------------------------------------------------------------------------
\* TLC re-evaluates a LET definition or an operator argument at every use
\* when it evaluates ENABLED; With binds the value once.
With(v, F(_)) == CHOOSE r \in { F(x) : x \in {v} } : TRUE
With2(v, w, F(_, _)) == CHOOSE r \in { F(x, y) : x \in {v}, y \in {w} } : TRUE

Pow2(n) == IF n <= 0 THEN 1 ELSE 2 ^ n

\* number of bits of n, 0 <= n < 2^30
BitLen(n) ==
  With(n, LAMBDA v :
    With(IF v >= 65536 THEN 16 ELSE 0, LAMBDA a :
      With(IF v \div 2 ^ a >= 256 THEN a + 8 ELSE a, LAMBDA b :
        With(IF v \div 2 ^ b >= 16 THEN b + 4 ELSE b, LAMBDA c :
          With(IF v \div 2 ^ c >= 4 THEN c + 2 ELSE c, LAMBDA d :
            With(IF v \div 2 ^ d >= 2 THEN d + 1 ELSE d, LAMBDA k :
              IF v \div 2 ^ k >= 1 THEN k + 1 ELSE k))))))

Abs(n) == IF n < 0 THEN -n ELSE n

FZero == [m |-> 0, e |-> 0]

\* +Infinity, used only as the start value of a running minimum.
FInf == [m |-> Pow2(Prec - 1), e |-> 4096]

FNeg(a) == [m |-> -a.m, e |-> a.e]

\* The value sgn * n * 2^e (n >= 0; sticky: a non-zero part below n was
\* dropped) rounded to Prec bits, nearest, ties to even.
FRound(sgn, n, e, sticky) ==
  With2(n, e, LAMBDA nv, ev :
    IF nv = 0 THEN FZero
    ELSE With(BitLen(nv), LAMBDA len :
      IF len <= Prec
      THEN [m |-> sgn * nv * Pow2(Prec - len), e |-> ev - (Prec - len)]
      ELSE With2(nv \div Pow2(len - Prec), nv % Pow2(len - Prec), LAMBDA q, r :
             LET k    == len - Prec
                 half == Pow2(k - 1)
                 up   == \/ r > half
                         \/ r = half /\ sticky
                         \/ r = half /\ ~sticky /\ q % 2 = 1
                 q2   == IF up THEN q + 1 ELSE q
             IN IF q2 = Pow2(Prec)
                THEN [m |-> sgn * Pow2(Prec - 1), e |-> ev + k + 1]
                ELSE [m |-> sgn * q2, e |-> ev + k])))

Sgn(n) == IF n < 0 THEN -1 ELSE 1

FromInt(n) == FRound(Sgn(n), Abs(n), 0, FALSE)

FMul(a, b) ==
  With2(a, b, LAMBDA x, y :
    FRound(Sgn(x.m) * Sgn(y.m), Abs(x.m) * Abs(y.m), x.e + y.e, FALSE))

\* b is never zero where the code divides (see userUnit and the box test).
FDiv(a, b) ==
  With2(a, b, LAMBDA x, y :
    LET n == Abs(x.m) * Pow2(Prec + 2)
        d == Abs(y.m)
    IN FRound(Sgn(x.m) * Sgn(y.m), n \div d, x.e - y.e - (Prec + 2), n % d # 0))

\* The number literal n/d of the source text (n, d > 0), correctly rounded.
FromRat(n, d) ==
  LET k  == IF BitLen(n) - BitLen(d) >= Prec + 3 THEN 0
            ELSE Prec + 3 - (BitLen(n) - BitLen(d))
      nn == n * Pow2(k)
  IN FRound(1, nn \div d, -k, nn % d # 0)

FAdd(a, b) ==
  With2(a, b, LAMBDA x, y :
    IF x.m = 0 THEN y
    ELSE IF y.m = 0 THEN x
    ELSE LET hi == IF x.e >= y.e THEN x ELSE y
             lo == IF x.e >= y.e THEN y ELSE x
             d  == hi.e - lo.e
         IN IF d > Prec + 2 THEN hi
            ELSE LET n == hi.m * Pow2(d) + lo.m
                 IN FRound(Sgn(n), Abs(n), lo.e, FALSE))

FSub(a, b) == FAdd(a, FNeg(b))

\* a < b on normalised values
FLess(a, b) ==
  With2(a, b, LAMBDA x, y :
    IF x.m = 0 THEN y.m > 0
    ELSE IF y.m = 0 THEN x.m < 0
    ELSE IF x.m < 0 /\ y.m > 0 THEN TRUE
    ELSE IF x.m > 0 /\ y.m < 0 THEN FALSE
    ELSE IF x.m > 0
         THEN x.e < y.e \/ (x.e = y.e /\ x.m < y.m)
         ELSE x.e > y.e \/ (x.e = y.e /\ x.m < y.m))

FLeq(a, b) == With2(a, b, LAMBDA x, y : x = y \/ FLess(x, y))

\* Math.min, Math.max
FMin(a, b) == With2(a, b, LAMBDA x, y : IF FLess(y, x) THEN y ELSE x)
FMax(a, b) == With2(a, b, LAMBDA x, y : IF FLess(x, y) THEN y ELSE x)


\* ------------------------------------------------------------------------
\* Data: placements, PDF files, documents, captured signatures
\* ------------------------------------------------------------------------
Null == [root |-> "null"]

\* A SignaturePlacement (types.ts); the lengths are centimetres.
Placement(l, t, w, h, p) ==
  [left |-> FromInt(l), top |-> FromInt(t), width |-> FromInt(w),
   height |-> FromInt(h), page |-> p]

\* The literal placement used when a document has none.
DefaultPlacement == Placement(5, 7, 8, 4, 1)

\* CM_TO_POINTS = 72 / 2.54
CM_TO_POINTS == FDiv(FromInt(72), FromRat(254, 100))

\* A page of a parsed PDF: its height in points, its UserUnit entry
\* ("absent", [num |-> f] or "notnum") and the operators drawn on it.
Page(h, uu) == [height |-> FromInt(h), userUnit |-> uu, ops |-> <<>>]

UUAbsent == [kind |-> "absent"]
UUNum(f) == [kind |-> "num", num |-> f]
UUNotNum == [kind |-> "notnum"]

\* The PDF bytes a document carries, described by what pdf-lib makes of
\* them: whether they parse, whether the parsed document serialises, and
\* the pages.  fault is "none", "load", "draw" or "save".
PdfData(fault) ==
  [parses     |-> fault # "load",
   serialises |-> fault # "save",
   pages      |-> << Page(842, IF fault = "draw" THEN UUNotNum ELSE UUAbsent),
                     Page(792, UUNum(FromInt(2))) >>]

Faults == {"none", "load", "draw", "save"}

\* The placement lists of the host's documents.
PlacementList(n) ==
  CASE n % 3 = 1 -> <<>>
    [] n % 3 = 2 -> << Placement(5, 7, 8, 4, 2), Placement(1, 1, 3, 2, 0),
                       Placement(2, 3, 4, 4, 1), Placement(1, 1, 2, 2, 3) >>
    [] OTHER     -> << Placement(1, 2, 6, 3, 1) >>

\* A path element of the captured markup: its d attribute, the box the
\* browser measures for it ("throws" when getBBox fails) and its stroke
\* attributes ("absent" when the markup omits them).
PathEl(d, bbox, sw) ==
  [d |-> d, bbox |-> bbox, stroke |-> "absent", strokeWidth |-> sw,
   strokeLinecap |-> "absent"]

BBox(x, y, w, h) ==
  [kind |-> "box", x |-> FromInt(x), y |-> FromInt(y),
   width |-> FromInt(w), height |-> FromInt(h)]
BBoxThrows == [kind |-> "throws"]

NoAttr == [kind |-> "absent"]
NumAttr(n) == [kind |-> "num", num |-> n]

\* An <svg> element as signature_pad writes it.
SvgEl(id, vb, w, h, paths) ==
  [root |-> "svg", id |-> id, viewBox |-> vb, width |-> w, height |-> h,
   preserveAspectRatio |-> "absent", paths |-> paths]

\* What the signature pad modal can hand to handleSignatureSave: markup
\* and the PNG data URI of the same drawing.
Capture(id) ==
  [svg |->
     CASE id = "sigA" ->
            SvgEl(id, NoAttr, NumAttr(200), NumAttr(160),
                  << PathEl("M10 20 L80 53", BBox(10, 20, 70, 33), NoAttr) >>)
       [] id = "sigB" ->
            SvgEl(id, NoAttr, NumAttr(200), NumAttr(160),
                  << PathEl("M5 5 L9 35", BBox(5, 5, 4, 30), NumAttr(3)),
                     PathEl("", BBox(0, 0, 0, 0), NoAttr),
                     PathEl("M7 1 L25 9", BBoxThrows, NoAttr) >>)
       [] id = "sigEmpty" ->
            SvgEl(id, NoAttr, NumAttr(200), NumAttr(160), <<>>)
       [] id = "sigDot" ->
            SvgEl(id, NoAttr, NumAttr(200), NumAttr(160),
                  << PathEl("M40 40", BBox(40, 40, 0, 0), NoAttr) >>)
       [] id = "sigLine" ->
            SvgEl(id, NoAttr, NumAttr(200), NumAttr(160),
                  << PathEl("M10 40 L70 40", BBox(10, 40, 60, 0), NoAttr) >>)
       [] OTHER -> [root |-> "html", id |-> id],
   png |-> [root |-> "dataurl", mime |-> "data:image/png;base64", b64 |-> id]]

CaptureIds == {"sigA", "sigB", "sigEmpty", "sigDot", "sigLine", "sigNoSvg"}


\* ------------------------------------------------------------------------
\* Pure helpers of usePdfDocument
\* ------------------------------------------------------------------------

\* hexToPdfRgb: the three colour bytes of a #rrggbb string, 0 0 0 when the
\* string is not of that form.
hexToPdfRgb(hex) ==
  CASE hex = "#000080" -> <<0, 0, 128>>
    [] hex = "#ff0000" -> <<255, 0, 0>>
    [] OTHER           -> <<0, 0, 0>>

\* toCap: SVG linecap name to the pdf-lib enum
toCap(cap) ==
  CASE cap = "butt"       -> "Butt"
    [] cap = "square"     -> "Projecting"
    [] cap = "projecting" -> "Projecting"
    [] OTHER              -> "Round"

\* attr || fallback
AttrOr(attr, fallback) == IF attr = "absent" THEN fallback ELSE attr

\* parseFloat(el.getAttribute('stroke-width') || '2')
StrokeWidthOf(el) ==
  IF el.strokeWidth.kind = "num" THEN FromInt(el.strokeWidth.num)
  ELSE FromInt(2)

\* getUnionBBox: the running min/max over the paths whose getBBox succeeds.
RECURSIVE UnionFold(_, _, _)
UnionFold(paths, i, acc) ==
  IF i > Len(paths) THEN acc
  ELSE LET bb == paths[i].bbox IN
    IF bb.kind = "throws" THEN UnionFold(paths, i + 1, acc)
    ELSE With([minX |-> FMin(acc.minX, bb.x),
               minY |-> FMin(acc.minY, bb.y),
               maxX |-> FMax(acc.maxX, FAdd(bb.x, bb.width)),
               maxY |-> FMax(acc.maxY, FAdd(bb.y, bb.height))],
              LAMBDA next : UnionFold(paths, i + 1, next))

getUnionBBox(paths) ==
  With(UnionFold(paths, 1,
         [minX |-> FInf, minY |-> FInf,
          maxX |-> FNeg(FInf), maxY |-> FNeg(FInf)]),
       LAMBDA acc :
         [minX   |-> acc.minX,
          minY   |-> acc.minY,
          width  |-> FMax(FZero, FSub(acc.maxX, acc.minX)),
          height |-> FMax(FZero, FSub(acc.maxY, acc.minY))])

\* svgElement.getAttribute('viewBox') || '0 0 200 160', split into numbers
ViewBoxOf(svgEl) ==
  IF svgEl.viewBox.kind = "vb"
  THEN [x |-> FromInt(svgEl.viewBox.x), y |-> FromInt(svgEl.viewBox.y),
        w |-> FromInt(svgEl.viewBox.w), h |-> FromInt(svgEl.viewBox.h)]
  ELSE [x |-> FZero, y |-> FZero, w |-> FromInt(200), h |-> FromInt(160)]

\* new DOMParser().parseFromString(text).querySelector('svg'); the text of
\* a null reference is "null", which has no <svg>.
QuerySvg(text) == IF text.root = "svg" THEN text ELSE Null

\* signaturePng.value.split(',')[1]; throws when the reference is null
PngBase64(png) ==
  IF png = Null THEN [kind |-> "throws"] ELSE [kind |-> "ok", v |-> png.b64]

\* (variant: the lower bound tested one too high)
PageIndexInvalidFromOne(pageIndex, pageCount) == pageIndex <= 0 \/ pageIndex >= pageCount

\* pageIndex < 0 || pageIndex >= pdfDoc.getPageCount()
PageIndexInvalid(pageIndex, pageCount) == pageIndex < 0 \/ pageIndex >= pageCount

\* The userUnit of a page: 1.0, replaced by the UserUnit entry when the
\* lookup yields a number other than 0; pdf-lib's typed lookup throws when
\* the entry is not a number.
UserUnitOf(page) ==
  CASE page.userUnit.kind = "absent" -> [kind |-> "ok", v |-> FromInt(1)]
    [] page.userUnit.kind = "notnum" -> [kind |-> "throws"]
    [] OTHER ->
         [kind |-> "ok",
          v |-> IF page.userUnit.num.m = 0 THEN FromInt(1) ELSE page.userUnit.num]

\* (variant: the left offset is converted without the page's user unit)
TargetBoxLeftUnscaled(placement, pageHeight, userUnit) ==
  With(FDiv(CM_TO_POINTS, userUnit), LAMBDA adjustedCmToPoints :
    With(FMul(placement.height, adjustedCmToPoints), LAMBDA targetHeight :
      [targetWidth  |-> FMul(placement.width, adjustedCmToPoints),
       targetHeight |-> targetHeight,
       targetX      |-> FMul(placement.left, CM_TO_POINTS),
       targetY      |-> FSub(FSub(pageHeight,
                                  FMul(placement.top, adjustedCmToPoints)),
                             targetHeight)]))

\* The target box of a placement in points.
TargetBox(placement, pageHeight, userUnit) ==
  With(FDiv(CM_TO_POINTS, userUnit), LAMBDA adjustedCmToPoints :
    With(FMul(placement.height, adjustedCmToPoints), LAMBDA targetHeight :
      [targetWidth  |-> FMul(placement.width, adjustedCmToPoints),
       targetHeight |-> targetHeight,
       targetX      |-> FMul(placement.left, adjustedCmToPoints),
       targetY      |-> FSub(FSub(pageHeight,
                                  FMul(placement.top, adjustedCmToPoints)),
                             targetHeight)]))

\* (variant: the declared viewBox is the source box)
useViewBox == FALSE

\* const useUnionBBox = true
useUnionBBox == TRUE

\* boxW, boxH
SourceBox(union, vb) ==
  [boxW |-> IF useUnionBBox THEN union.width ELSE FSub(vb.w, vb.x),
   boxH |-> IF useUnionBBox THEN union.height ELSE FSub(vb.h, vb.y)]

\* !boxW || !boxH
ZeroSizedBox(box) == box.boxW.m = 0 \/ box.boxH.m = 0

\* (variant: the larger of the two ratios)
FitScaleMax(t, box) == FMax(FDiv(t.targetWidth, box.boxW), FDiv(t.targetHeight, box.boxH))

\* Math.min(targetWidth / boxW, targetHeight / boxH)
FitScale(t, box) == FMin(FDiv(t.targetWidth, box.boxW), FDiv(t.targetHeight, box.boxH))

\* (variant: the signature is put at the origin of the target box)
FitUncentred(t, box) ==
  With(FitScale(t, box), LAMBDA scale :
    With2(FMul(box.boxW, scale), FMul(box.boxH, scale),
          LAMBDA scaledWidth, scaledHeight :
      [scale |-> scale, scaledWidth |-> scaledWidth, scaledHeight |-> scaledHeight,
       centeredX |-> t.targetX,
       centeredY |-> t.targetY]))

\* scale, scaled size and centred origin of the signature in the target box
Fit(t, box) ==
  With(FitScale(t, box), LAMBDA scale :
    With2(FMul(box.boxW, scale), FMul(box.boxH, scale),
          LAMBDA scaledWidth, scaledHeight :
      [scale |-> scale, scaledWidth |-> scaledWidth, scaledHeight |-> scaledHeight,
       centeredX |-> FAdd(t.targetX,
                          FDiv(FSub(t.targetWidth, scaledWidth), FromInt(2))),
       centeredY |-> FAdd(t.targetY,
                          FDiv(FSub(t.targetHeight, scaledHeight), FromInt(2)))]))

\* The page.drawSvgPath call made for one path element
PathOp(el, fit, union, vb) ==
  LET offX == IF useUnionBBox THEN union.minX ELSE vb.x
      offY == IF useUnionBBox THEN union.minY ELSE vb.y
  IN [op |-> "drawSvgPath", d |-> el.d,
      x |-> FSub(fit.centeredX, FMul(offX, fit.scale)),
      y |-> FAdd(FAdd(fit.centeredY, fit.scaledHeight), FMul(offY, fit.scale)),
      scale |-> fit.scale,
      borderColor |-> hexToPdfRgb(AttrOr(el.stroke, "#000080")),
      borderWidth |-> FMul(StrokeWidthOf(el), fit.scale),
      borderLineCap |-> toCap(AttrOr(el.strokeLinecap, "round"))]

\* pathNodeList.forEach: one drawSvgPath per path with a non-empty d
RECURSIVE DrawPaths(_, _, _, _, _)
DrawPaths(paths, i, fit, union, vb) ==
  IF i > Len(paths) THEN <<>>
  ELSE (IF paths[i].d = "" THEN <<>> ELSE << PathOp(paths[i], fit, union, vb) >>)
       \o DrawPaths(paths, i + 1, fit, union, vb)

\* Log entries
Warn(msg) == [ev |-> "warn", msg |-> msg]
Error(msg) == [ev |-> "error", msg |-> msg]

\* (variant: a skipped placement aborts the loop)
SkipPlacementThrows(pages, msg) ==
  [pages |-> pages, log |-> << Warn(msg) >>, threw |-> TRUE]

\* logger.warn(...); continue
SkipPlacement(pages, msg) ==
  [pages |-> pages, log |-> << Warn(msg) >>, threw |-> FALSE]

\* The body of the placement loop past the page test: the pages after the
\* placement, what it logged, and whether it threw.
\* (variant: the paths go to the last page of the document)
DrawPlacementOnLast(pages, pageIndex, placement, sig) ==
  LET page == pages[pageIndex + 1]
      uu   == UserUnitOf(page)
  IN IF uu.kind = "throws"
     THEN [pages |-> pages, log |-> <<>>, threw |-> TRUE]
     ELSE With2(TargetBox(placement, page.height, uu.v),
                SourceBox(sig.union, sig.vb), LAMBDA t, box :
            IF ZeroSizedBox(box)
            THEN SkipPlacement(pages, "Zero-sized source box")
            ELSE With(Fit(t, box), LAMBDA fit :
                   [pages |-> [pages EXCEPT ![Len(pages)].ops =
                                 @ \o DrawPaths(sig.paths, 1, fit,
                                                sig.union, sig.vb)],
                    log |-> <<>>, threw |-> FALSE]))

DrawPlacement(pages, pageIndex, placement, sig) ==
  LET page == pages[pageIndex + 1]
      uu   == UserUnitOf(page)
  IN IF uu.kind = "throws"
     THEN [pages |-> pages, log |-> <<>>, threw |-> TRUE]
     ELSE With2(TargetBox(placement, page.height, uu.v),
                SourceBox(sig.union, sig.vb), LAMBDA t, box :
            IF ZeroSizedBox(box)
            THEN SkipPlacement(pages, "Zero-sized source box")
            ELSE With(Fit(t, box), LAMBDA fit :
                   [pages |-> [pages EXCEPT ![pageIndex + 1].ops =
                                 @ \o DrawPaths(sig.paths, 1, fit,
                                                sig.union, sig.vb)],
                    log |-> <<>>, threw |-> FALSE]))

\* The body of the placement loop for one placement.
PlacementBody(pages, placement, sig) ==
  LET pageIndex == placement.page - 1 IN
  IF PageIndexInvalid(pageIndex, Len(pages))
  THEN SkipPlacement(pages, "Invalid page number")
  ELSE DrawPlacement(pages, pageIndex, placement, sig)

\* for (const placement of placements): stops at the first throw
RECURSIVE PlacementLoop(_, _, _, _, _)
PlacementLoop(pages, placements, i, sig, log) ==
  IF i > Len(placements) THEN [pages |-> pages, log |-> log, threw |-> FALSE]
  ELSE With2(PlacementBody(pages, placements[i], sig), log, LAMBDA r, lg :
    IF r.threw THEN [pages |-> r.pages, log |-> lg \o r.log, threw |-> TRUE]
    ELSE PlacementLoop(r.pages, placements, i + 1, sig, lg \o r.log))

\* (variant: no default placement)
PlacementsAsGiven(placements) == placements

\* doc.placements.length > 0 ? doc.placements : [default]
PlacementsOrDefault(placements) ==
  IF Len(placements) > 0 THEN placements ELSE << DefaultPlacement >>

\* The parsed signature a save works with: path list, union box, viewBox
ParsedSignature(svgEl) ==
  [id |-> svgEl.id, paths |-> svgEl.paths, union |-> getUnionBBox(svgEl.paths),
   vb |-> ViewBoxOf(svgEl)]

\* PDFDocument.load resolved: the parsed document
LoadedPdf(data) == [pages |-> data.pages, serialises |-> data.serialises]

\* pdfDoc.saveAsBase64 resolved: the bytes of the edited document
SavedPdf(pdfDoc) == [parses |-> TRUE, serialises |-> TRUE, pages |-> pdfDoc.pages]


\* ------------------------------------------------------------------------
\* useSignaturePad
\* ------------------------------------------------------------------------
NoKey == 0

\* The element handleSignatureSave serialises: viewBox added when missing
\* and width/height are numbers, width/height removed, aspect fit "meet".
NormalisedSvg(el) ==
  [el EXCEPT
     !.viewBox = IF el.viewBox.kind = "absent" /\ el.width.kind = "num"
                    /\ el.height.kind = "num"
                 THEN [kind |-> "vb", x |-> 0, y |-> 0,
                       w |-> el.width.num, h |-> el.height.num]
                 ELSE @,
     !.width = NoAttr,
     !.height = NoAttr,
     !.preserveAspectRatio = "xMidYMid meet"]

\* signatureSvg after handleSignatureSave
StoredSvg(svg) ==
  IF QuerySvg(svg) = Null THEN Null ELSE NormalisedSvg(QuerySvg(svg))

\* signaturePng after handleSignatureSave
StoredPng(svg, png) == IF QuerySvg(svg) = Null THEN Null ELSE png

OpenSignaturePad ==
  /\ ~isSignaturePadOpen
  /\ isSignaturePadOpen' = TRUE
  /\ isLocked' = TRUE
  /\ UNCHANGED << hostVars, activeDocumentKey,
                  newlySignedKeys, signatureSvg, signaturePng, isSaving, saves >>

\* (variant: cancelling does not release the scroll lock)
HandleSignatureCancelKeepsLock ==
  /\ isSignaturePadOpen
  /\ isSignaturePadOpen' = FALSE
  /\ UNCHANGED << hostVars, activeDocumentKey, isLocked,
                  newlySignedKeys, signatureSvg, signaturePng, isSaving, saves >>

HandleSignatureCancel ==
  /\ isSignaturePadOpen
  /\ isSignaturePadOpen' = FALSE
  /\ isLocked' = FALSE
  /\ UNCHANGED << hostVars, activeDocumentKey,
                  newlySignedKeys, signatureSvg, signaturePng, isSaving, saves >>

\* The modal's save event.  The multi-document component wraps the handler
\* and records the active document as newly signed.
SignatureSaved(id) ==
  /\ isSignaturePadOpen
  /\ signatureSvg' = StoredSvg(Capture(id).svg)
  /\ signaturePng' = StoredPng(Capture(id).svg, Capture(id).png)
  /\ isSignaturePadOpen' = FALSE
  /\ isLocked' = FALSE
  /\ newlySignedKeys' =
       IF mode = "multi" /\ activeDocumentKey # NoKey
       THEN newlySignedKeys \cup {activeDocumentKey}
       ELSE newlySignedKeys
  /\ UNCHANGED << activeDocumentKey, isSaving, saves >>

HandleSignatureSave(id) == SignatureSaved(id) /\ UNCHANGED hostVars

\* The same event with the capture recorded for the active document
HandleSignatureSaveTracked(id) ==
  /\ SignatureSaved(id)
  /\ capturedFor' =
       IF mode = "multi" /\ activeDocumentKey \in DOMAIN capturedFor
       THEN [capturedFor EXCEPT ![activeDocumentKey] = @ \cup {id}]
       ELSE capturedFor
  /\ UNCHANGED << mode, signingPolicy, documents, geom, render >>

\* ------------------------------------------------------------------------
\* Multi-document component state
\* ------------------------------------------------------------------------
Keys(docs) == { docs[i].key : i \in DOMAIN docs }

\* docs.find((doc) => !doc.signed)?.key ?? docs[0]?.key ?? null
RECURSIVE FirstUnsigned(_, _)
FirstUnsigned(docs, i) ==
  IF i > Len(docs) THEN 0
  ELSE IF ~docs[i].signed THEN i ELSE FirstUnsigned(docs, i + 1)

InitialActiveKey(docs) ==
  IF FirstUnsigned(docs, 1) # 0 THEN docs[FirstUnsigned(docs, 1)].key
  ELSE IF Len(docs) > 0 THEN docs[1].key
  ELSE NoKey

\* (variant: the button does not ask for a current signature)
isFinishEnabledUnsigned ==
  IF signingPolicy = "all"
  THEN \A i \in DOMAIN documents :
         ~documents[i].signed => documents[i].key \in newlySignedKeys
  ELSE newlySignedKeys # {}

isFinishEnabled ==
  IF signatureSvg = Null THEN FALSE
  ELSE IF signingPolicy = "all"
       THEN \A i \in DOMAIN documents :
              ~documents[i].signed => documents[i].key \in newlySignedKeys
  ELSE IF signingPolicy = "any" THEN newlySignedKeys # {}
  ELSE FALSE

\* (variant: no watcher on activeDocumentKey)
SelectDocumentKeepsSignature(k) ==
  /\ mode = "multi"
  /\ k \in Keys(documents)
  /\ k # activeDocumentKey
  /\ activeDocumentKey' = k
  /\ UNCHANGED << hostVars, newlySignedKeys, signatureSvg, signaturePng,
                  isSignaturePadOpen, isLocked, isSaving, saves >>

\* A click on a document list button, with the watcher on activeDocumentKey
\* that clears the signature when the key changed.
SelectDocument(k) ==
  /\ mode = "multi"
  /\ k \in Keys(documents)
  /\ k # activeDocumentKey
  /\ activeDocumentKey' = k
  /\ signatureSvg' = Null
  /\ signaturePng' = Null
  /\ UNCHANGED << hostVars, newlySignedKeys,
                  isSignaturePadOpen, isLocked, isSaving, saves >>


\* activeDocument (multi-document), props.document (single-document)
ActiveDocument ==
  IF mode = "single" THEN documents[1]
  ELSE IF \E n \in DOMAIN documents : documents[n].key = activeDocumentKey
       THEN documents[CHOOSE n \in DOMAIN documents :
                        documents[n].key = activeDocumentKey]
       ELSE Null

\* signatureData: the placements handed to the overlay
SignatureData ==
  IF ActiveDocument = Null THEN <<>> ELSE ActiveDocument.placements

\* useSignatureOverlay: the placements signatureStyles lays out
OverlayDefaultPlacement == Placement(5, 7, 8, 4, 1)

OverlayPlacements(signatureData) ==
  IF Len(signatureData) > 0 THEN signatureData
  ELSE << OverlayDefaultPlacement >>


\* ------------------------------------------------------------------------
\* usePdfDocument: saveDocument
\* ------------------------------------------------------------------------
\* An invocation of saveDocument: where it is suspended (pc), how it ended
\* (outcome), its locals, and what it logged, called and emitted (trace).
\* signedAtCall is a history field: the newly-signed set at the call.
NewSave ==
  [pc |-> "start", outcome |-> "running", sig |-> Null, pngB64 |-> "",
   docs |-> <<>>, docIdx |-> 0, pdfDoc |-> Null, resultsMap |-> <<>>,
   trace |-> <<>>, signedAtCall |-> {}]

\* (variant: no finally block)
FinallyMissing(saving) == saving

\* finally { isSaving.value = false }
Finally(saving) == FALSE

\* (variant: the catch block emits what was built so far)
CaughtEmits(inv, saving) ==
  [inv |-> [inv EXCEPT !.pc = "done", !.outcome = "failed",
                       !.trace = @ \o << [ev |-> "emit", payload |-> inv.resultsMap],
                                         Error("Failed to save document") >>],
   saving |-> FALSE]

\* catch (error) { logger.error(...) } finally { ... }
Caught(inv, saving) ==
  [inv |-> [inv EXCEPT !.pc = "done", !.outcome = "failed",
                       !.trace = Append(@, Error("Failed to save document"))],
   saving |-> Finally(saving)]

\* (variant: finish is emitted a second time)
EmittedTwice(inv, payload, saving) ==
  [inv |-> [inv EXCEPT !.pc = "done", !.outcome = "emitted",
                       !.trace = @ \o << [ev |-> "emit", payload |-> payload],
                                         [ev |-> "emit", payload |-> payload] >>],
   saving |-> Finally(saving)]

\* emit('finish', payload), then the finally block
Emitted(inv, payload, saving) ==
  [inv |-> [inv EXCEPT !.pc = "done", !.outcome = "emitted",
                       !.trace = Append(@, [ev |-> "emit", payload |-> payload])],
   saving |-> Finally(saving)]

\* (variant: no early return, the empty result is emitted)
InvalidSignatureEmits(inv, saving) ==
  [inv |-> [inv EXCEPT !.pc = "done", !.outcome = "emitted",
                       !.trace = Append(@, [ev |-> "emit", payload |-> inv.resultsMap])],
   saving |-> FALSE]

\* The early return for markup without <svg> or <path>
InvalidSignature(inv, saving) ==
  [inv |-> [inv EXCEPT !.pc = "done", !.outcome = "invalid",
                       !.trace = Append(@, Error("Signature SVG missing <svg> or <path> elements"))],
   saving |-> Finally(saving)]

\* The return of the guard at the top of saveDocument
NoSignature(saving) ==
  [inv |-> [NewSave EXCEPT !.pc = "done", !.outcome = "noop",
                           !.trace = << Warn("Save called without a signature") >>],
   saving |-> saving]

\* A SignatureResult
SignatureResult(pdfDoc, pngB64) ==
  [signedDocument |-> [type |-> "application/pdf", data |-> SavedPdf(pdfDoc)],
   signatureImage |-> [type |-> "image/png", data |-> pngB64]]

\* (variant: no test of the newly-signed set)
NextSignedAll(docs, i, keys) == IF i > Len(docs) THEN 0 ELSE i

\* The loop header of the batch: the next document, from index i on, whose
\* key is in the newly-signed set; 0 when there is none.
RECURSIVE NextSigned(_, _, _)
NextSigned(docs, i, keys) ==
  IF i > Len(docs) THEN 0
  ELSE IF docs[i].key \in keys THEN i
  ELSE NextSigned(docs, i + 1, keys)

\* (variant: the loop goes on from the document it has just finished)
MultiLoopRepeats(inv, i, keys, saving) ==
  LET n == NextSigned(inv.docs, IF i > 1 THEN i - 1 ELSE i, keys) IN
  IF n = 0 THEN Emitted(inv, inv.resultsMap, saving)
  ELSE [inv |-> [inv EXCEPT !.pc = "loading", !.docIdx = n, !.pdfDoc = Null,
                            !.trace = Append(@, [ev |-> "load", key |-> inv.docs[n].key])],
        saving |-> saving]

\* Multi-document: run the document loop from index i to its next await
\* (PDFDocument.load) or to the emit after the loop.
MultiLoopFrom(inv, i, keys, saving) ==
  LET n == NextSigned(inv.docs, i, keys) IN
  IF n = 0 THEN Emitted(inv, inv.resultsMap, saving)
  ELSE [inv |-> [inv EXCEPT !.pc = "loading", !.docIdx = n, !.pdfDoc = Null,
                            !.trace = Append(@, [ev |-> "load", key |-> inv.docs[n].key])],
        saving |-> saving]

\* Multi-document: the call of saveDocument up to its first await
MultiStart(svg, png, docs, keys, saving) ==
  IF svg = Null \/ png = Null \/ keys = {} THEN NoSignature(saving)
  ELSE LET svgEl == QuerySvg(svg) IN
    IF svgEl = Null \/ Len(svgEl.paths) = 0
    THEN InvalidSignature(NewSave, TRUE)
    ELSE With(ParsedSignature(svgEl), LAMBDA sig :
           MultiLoopFrom([NewSave EXCEPT !.sig = sig,
                                         !.pngB64 = PngBase64(png).v,
                                         !.docs = docs,
                                         !.signedAtCall = keys],
                         1, keys, TRUE))

\* The placement loop on a freshly loaded document, up to saveAsBase64
DrawAndSerialise(inv, pdf, placements, key, saving) ==
  With(PlacementLoop(pdf.pages, PlacementsOrDefault(placements), 1, inv.sig, <<>>),
       LAMBDA r :
         LET inv2 == [inv EXCEPT !.pdfDoc = [pdf EXCEPT !.pages = r.pages],
                                 !.trace = @ \o r.log]
         IN IF r.threw THEN Caught(inv2, saving)
            ELSE [inv |-> [inv2 EXCEPT !.pc = "serialising",
                                       !.trace = Append(@, [ev |-> "serialise",
                                                            key |-> key])],
                  saving |-> saving])

\* Multi-document: PDFDocument.load settled
MultiLoaded(inv, saving) ==
  LET doc == inv.docs[inv.docIdx] IN
  IF ~doc.data.parses THEN Caught(inv, saving)
  ELSE DrawAndSerialise(inv, LoadedPdf(doc.data), doc.placements, doc.key, saving)

\* Multi-document: saveAsBase64 settled
MultiSerialised(inv, keys, saving) ==
  LET doc == inv.docs[inv.docIdx] IN
  IF ~inv.pdfDoc.serialises THEN Caught(inv, saving)
  ELSE MultiLoopFrom(
         [inv EXCEPT !.resultsMap =
                       (doc.key :> SignatureResult(inv.pdfDoc, inv.pngB64)) @@ @],
         inv.docIdx + 1, keys, saving)

\* Single-document: the call of saveDocument up to await nextTick()
SingleStart(svg, png, saving) ==
  IF svg = Null \/ png = Null THEN NoSignature(saving)
  ELSE [inv |-> [NewSave EXCEPT !.pc = "tick"], saving |-> TRUE]

\* Single-document: sleep(500) settled; PDFDocument.load(pdfData.value)
SingleSlept(inv, docs, saving) ==
  [inv |-> [inv EXCEPT !.pc = "loading", !.docs = docs, !.docIdx = 1,
                       !.trace = Append(@, [ev |-> "load", key |-> docs[1].key])],
   saving |-> saving]

\* Single-document: PDFDocument.load settled
SingleLoaded(inv, svg, placements, saving) ==
  LET doc == inv.docs[inv.docIdx] IN
  IF ~doc.data.parses THEN Caught(inv, saving)
  ELSE LET svgEl == QuerySvg(svg)
           inv2  == [inv EXCEPT !.pdfDoc = LoadedPdf(doc.data)]
       IN IF svgEl = Null \/ Len(svgEl.paths) = 0
          THEN InvalidSignature(inv2, saving)
          ELSE With(ParsedSignature(svgEl), LAMBDA sig :
                 DrawAndSerialise([inv2 EXCEPT !.sig = sig],
                                  LoadedPdf(doc.data), placements, doc.key, saving))

\* Single-document: saveAsBase64 settled
SingleSerialised(inv, png, saving) ==
  IF ~inv.pdfDoc.serialises THEN Caught(inv, saving)
  ELSE IF PngBase64(png).kind = "throws" THEN Caught(inv, saving)
  ELSE Emitted([inv EXCEPT !.pngB64 = PngBase64(png).v],
               SignatureResult(inv.pdfDoc, PngBase64(png).v), saving)

Running(i) == i \in DOMAIN saves /\ saves[i].pc # "done"

\* Invocations that returned are dropped when the next one starts.
Unfinished == SelectSeq(saves, LAMBDA inv : inv.pc # "done")

\* :disabled of the Save button
\* (variant: the button is not disabled while a save runs)
SaveDisabledNotWhileSaving ==
  IF mode = "multi" THEN ~isFinishEnabled ELSE signatureSvg = Null

SaveDisabled ==
  IF mode = "multi" THEN ~isFinishEnabled \/ isSaving
  ELSE signatureSvg = Null \/ isSaving

\* A click on the Save button
ClickSave ==
  /\ ~SaveDisabled
  /\ \E r \in { IF mode = "multi"
                 THEN MultiStart(signatureSvg, signaturePng, documents,
                                 newlySignedKeys, isSaving)
                 ELSE SingleStart(signatureSvg, signaturePng, isSaving) } :
       /\ saves' = Append(Unfinished, r.inv)
       /\ isSaving' = r.saving
  /\ UNCHANGED << hostVars, activeDocumentKey,
                  newlySignedKeys, signatureSvg, signaturePng,
                  isSignaturePadOpen, isLocked >>

Resume(i, result) ==
  /\ UNCHANGED << hostVars, activeDocumentKey,
                  newlySignedKeys, signatureSvg, signaturePng,
                  isSignaturePadOpen, isLocked >>
  /\ \E r \in {result} :
       /\ saves' = [saves EXCEPT ![i] = r.inv]
       /\ isSaving' = r.saving

\* await nextTick() settled
TickSettled(i) ==
  /\ Running(i) /\ saves[i].pc = "tick"
  /\ Resume(i, [inv |-> [saves[i] EXCEPT !.pc = "sleep"], saving |-> isSaving])

\* await sleep(500) settled
SleepSettled(i) ==
  /\ Running(i) /\ saves[i].pc = "sleep"
  /\ Resume(i, SingleSlept(saves[i], documents, isSaving))

\* await PDFDocument.load(..) settled
LoadSettled(i) ==
  /\ Running(i) /\ saves[i].pc = "loading"
  /\ Resume(i, IF mode = "multi"
               THEN MultiLoaded(saves[i], isSaving)
               ELSE SingleLoaded(saves[i], signatureSvg,
                                 documents[1].placements, isSaving))

\* await pdfDoc.saveAsBase64() settled
SerialiseSettled(i) ==
  /\ Running(i) /\ saves[i].pc = "serialising"
  /\ Resume(i, IF mode = "multi"
               THEN MultiSerialised(saves[i], newlySignedKeys, isSaving)
               ELSE SingleSerialised(saves[i], signaturePng, isSaving))

SaveStep ==
  \E i \in DOMAIN saves :
    TickSettled(i) \/ SleepSettled(i) \/ LoadSettled(i) \/ SerialiseSettled(i)

\* ------------------------------------------------------------------------
\* Specification
\* ------------------------------------------------------------------------
\* The host's documents: document n has key n and placement list n; the
\* first or the last of them may carry a PDF with a fault, the first may be
\* pre-signed.
HostDocument(n, fault, signed) ==
  [key |-> n, signed |-> signed, data |-> PdfData(fault),
   placements |-> PlacementList(n)]

HostDocuments(faulty, fault, presigned) ==
  [n \in 1..NumDocs |->
     HostDocument(n, IF n = faulty THEN fault ELSE "none", n = presigned)]

Init ==
  /\ mode \in {"multi", "single"}
  /\ \/ /\ mode = "multi"
        /\ signingPolicy \in {"all", "any"}
        /\ \E faulty \in {0, 1, NumDocs}, fault \in Faults, presigned \in {0, 1} :
             /\ (faulty = 0) = (fault = "none")
             /\ documents = HostDocuments(faulty, fault, presigned)
        /\ activeDocumentKey = InitialActiveKey(documents)
     \/ /\ mode = "single"
        /\ signingPolicy = "all"
        /\ \E n \in 1..3, fault \in Faults :
             documents = << [HostDocument(n, fault, FALSE) EXCEPT !.key = 1] >>
        /\ activeDocumentKey = NoKey
  /\ newlySignedKeys = {}
  /\ signatureSvg = Null
  /\ signaturePng = Null
  /\ isSignaturePadOpen = FALSE
  /\ isLocked = FALSE
  /\ isSaving = FALSE
  /\ saves = <<>>
  /\ geom = [stage |-> "off"]
  /\ render = [stage |-> "off"]
  /\ capturedFor = [k \in Keys(documents) |-> {}]

Next ==
  \/ OpenSignaturePad
  \/ HandleSignatureCancel
  \/ \E id \in CaptureIds : HandleSignatureSave(id)
  \/ \E k \in 1..NumDocs : SelectDocument(k)
  \/ ClickSave
  \/ SaveStep

Spec == Init /\ [][Next]_vars

\* The same component with signingPolicy 'any', no pre-signed document and
\* the faulty PDF, if any, last (multi-document) or any single document; the
\* event loop runs the
\* continuation of every settled promise and of every elapsed timer.
InitLive ==
  /\ Init
  /\ mode = "multi" =>
       /\ signingPolicy = "any"
       /\ \A n \in DOMAIN documents :
            /\ ~documents[n].signed
            /\ n < NumDocs => documents[n].data = PdfData("none")

FairSpec == InitLive /\ [][Next]_vars /\ WF_vars(SaveStep)

\* The multi-document component with sound PDFs whose host replaces the
\* documents array: the watcher on props.documents and, when the active key
\* changes with it, the watcher on activeDocumentKey run before the next
\* event.
AllSigned(docs) == [n \in DOMAIN docs |-> [docs[n] EXCEPT !.signed = TRUE]]

DocumentLists ==
  { HostDocuments(0, "none", 0), HostDocuments(0, "none", 1),
    AllSigned(HostDocuments(0, "none", 0)),
    Tail(HostDocuments(0, "none", 0)), << >> }

\* (variant: the watcher keeps the newly-signed set)
DocumentsChangedKeepsSigned(docs) ==
  /\ mode = "multi"
  /\ documents' = docs
  /\ activeDocumentKey' = InitialActiveKey(docs)
  /\ signatureSvg' =
       IF InitialActiveKey(docs) # activeDocumentKey THEN Null ELSE signatureSvg
  /\ signaturePng' =
       IF InitialActiveKey(docs) # activeDocumentKey THEN Null ELSE signaturePng
  /\ UNCHANGED << mode, signingPolicy, geom, capturedFor, render,
                  isSignaturePadOpen, isLocked, isSaving, saves,
                  newlySignedKeys >>

\* watch(() => props.documents, ..) and, when the key changes,
\* watch(activeDocumentKey, ..)
DocumentsChanged(docs) ==
  /\ mode = "multi"
  /\ documents' = docs
  /\ newlySignedKeys' = {}
  /\ activeDocumentKey' = InitialActiveKey(docs)
  /\ signatureSvg' =
       IF InitialActiveKey(docs) # activeDocumentKey THEN Null ELSE signatureSvg
  /\ signaturePng' =
       IF InitialActiveKey(docs) # activeDocumentKey THEN Null ELSE signaturePng
  /\ UNCHANGED << mode, signingPolicy, geom, capturedFor, render,
                  isSignaturePadOpen, isLocked, isSaving, saves >>

PropCaptureIds == {"sigA", "sigNoSvg"}

InitProp ==
  /\ Init
  /\ mode = "multi"
  /\ documents \in DocumentLists

NextProp ==
  \/ OpenSignaturePad
  \/ HandleSignatureCancel
  \/ \E id \in PropCaptureIds : HandleSignatureSave(id)
  \/ \E k \in 1..NumDocs : SelectDocument(k)
  \/ \E docs \in DocumentLists : DocumentsChanged(docs)
  \/ ClickSave
  \/ SaveStep

PropSpec == InitProp /\ [][NextProp]_vars

\* The multi-document component with sound PDFs, with a record of which
\* captures were stored while which document was active; the user draws
\* one of two signatures.
TrackIds == {"sigA", "sigB"}

InitTrack ==
  /\ Init
  /\ mode = "multi"
  /\ signingPolicy = "any"
  /\ \A n \in DOMAIN documents :
       ~documents[n].signed /\ documents[n].data = PdfData("none")

NextTrack ==
  \/ OpenSignaturePad
  \/ HandleSignatureCancel
  \/ \E id \in TrackIds : HandleSignatureSaveTracked(id)
  \/ \E k \in 1..NumDocs : SelectDocument(k)
  \/ ClickSave
  \/ SaveStep

TrackSpec == InitTrack /\ [][NextTrack]_vars


\* ------------------------------------------------------------------------
\* The placement resolution on its own: the body of the placement loop from
\* the unit conversion to the centred fit, for one placement, one page and
\* one source box.
\* ------------------------------------------------------------------------
GeomInput(w, h, uu, bw, bh) ==
  [stage |-> "input",
   placement |-> Placement(5, 7, w, h, 1),
   page |-> Page(842, uu),
   box |-> SourceBox([minX |-> FZero, minY |-> FZero,
                      width |-> FromInt(bw), height |-> FromInt(bh)],
                     ViewBoxOf(Capture("sigA").svg))]

InitGeom ==
  /\ mode = "single"
  /\ signingPolicy = "all"
  /\ documents = << >>
  /\ activeDocumentKey = NoKey
  /\ newlySignedKeys = {}
  /\ signatureSvg = Null
  /\ signaturePng = Null
  /\ isSignaturePadOpen = FALSE
  /\ isLocked = FALSE
  /\ isSaving = FALSE
  /\ saves = <<>>
  /\ capturedFor = <<>>
  /\ render = [stage |-> "off"]
  /\ \E w \in 1..MaxCm, h \in 1..MaxCm, bw \in 0..MaxBox, bh \in 0..MaxBox,
        uu \in {UUAbsent, UUNum(FromInt(0)), UUNum(FromInt(2)),
                UUNum(FromInt(-2))} :
       geom = GeomInput(w, h, uu, bw, bh)

geomFrame ==
  UNCHANGED << mode, signingPolicy, documents, activeDocumentKey,
               newlySignedKeys, signatureSvg, signaturePng,
               isSignaturePadOpen, isLocked, isSaving, saves, capturedFor,
               render >>

\* userUnit lookup and the conversion of the placement to points
ResolveTarget ==
  /\ geom.stage = "input"
  /\ \E userUnit \in {UserUnitOf(geom.page).v} :
       geom' = [stage |-> "target", placement |-> geom.placement,
                page |-> geom.page, box |-> geom.box, userUnit |-> userUnit,
                t |-> TargetBox(geom.placement, geom.page.height, userUnit)]
  /\ geomFrame

\* if (!boxW || !boxH) continue
SkipZeroBox ==
  /\ geom.stage = "target"
  /\ ZeroSizedBox(geom.box)
  /\ geom' = [stage |-> "skipped", placement |-> geom.placement,
              page |-> geom.page, box |-> geom.box,
              userUnit |-> geom.userUnit, t |-> geom.t]
  /\ geomFrame

\* scale, scaled size, centred origin
ResolveFit ==
  /\ geom.stage = "target"
  /\ ~ZeroSizedBox(geom.box)
  /\ geom' = [stage |-> "fit", placement |-> geom.placement,
              page |-> geom.page, box |-> geom.box,
              userUnit |-> geom.userUnit, t |-> geom.t,
              fit |-> Fit(geom.t, geom.box)]
  /\ geomFrame

NextGeom == ResolveTarget \/ SkipZeroBox \/ ResolveFit

GeomSpec == InitGeom /\ [][NextGeom]_vars


\* ------------------------------------------------------------------------
\* usePdfRenderer: the calls of loadAndRenderPdf made at mount and by the
\* watcher on pdfData, with their awaits interleaved.
\* ------------------------------------------------------------------------
MaxPdfChanges == 2

\* The PDFs the host can hand over; "bad" is rejected by pdfjs
PdfNames == {"A", "B", "bad"}

numPages(pdf) == IF pdf = "A" THEN 2 ELSE IF pdf = "B" THEN 1 ELSE 0

\* The canvas of one page, as appended to the container and to pageDetails
Canvas(pdf, pageNum) == [pdf |-> pdf, pageNum |-> pageNum]

\* '<p style="color: red;">Error: Failed to load PDF.</p>'
ErrorParagraph == [pdf |-> "error", pageNum |-> 0]

\* The synchronous head of loadAndRenderPdf: reset, then getDocument
loadAndRenderPdf(r, pdfData) ==
  IF pdfData = "" THEN r
  ELSE [r EXCEPT !.container = <<>>,
                 !.pageDetails = <<>>,
                 !.isPdfRendered = FALSE,
                 !.calls = Append(@, [pdf |-> pdfData, pc |-> "getDocument",
                                      pageNum |-> 0])]

\* onMounted(() => loadAndRenderPdf(pdfData.value))
InitRender ==
  /\ mode = "single"
  /\ signingPolicy = "all"
  /\ documents = << >>
  /\ activeDocumentKey = NoKey
  /\ newlySignedKeys = {}
  /\ signatureSvg = Null
  /\ signaturePng = Null
  /\ isSignaturePadOpen = FALSE
  /\ isLocked = FALSE
  /\ isSaving = FALSE
  /\ saves = <<>>
  /\ capturedFor = <<>>
  /\ geom = [stage |-> "off"]
  /\ \E pdfData \in PdfNames :
       render = loadAndRenderPdf(
                  [stage |-> "mounted", pdfData |-> pdfData, container |-> <<>>,
                   pageDetails |-> <<>>, isPdfRendered |-> FALSE,
                   calls |-> <<>>, changes |-> 0, overlapped |-> FALSE],
                  pdfData)

renderFrame ==
  UNCHANGED << mode, signingPolicy, documents, activeDocumentKey,
               newlySignedKeys, signatureSvg, signaturePng,
               isSignaturePadOpen, isLocked, isSaving, saves, capturedFor,
               geom >>

\* watch(pdfData): a changed value starts another loadAndRenderPdf.
\* changes and overlapped are history fields: the number of changes, and
\* whether one of them came while an earlier call was suspended.
PdfDataChanged(newPdfData) ==
  /\ render.changes < MaxPdfChanges
  /\ newPdfData # render.pdfData
  /\ render' = loadAndRenderPdf(
                 [render EXCEPT !.pdfData = newPdfData,
                                !.changes = @ + 1,
                                !.overlapped =
                                   @ \/ \E c \in DOMAIN render.calls :
                                          render.calls[c].pc # "done"],
                 newPdfData)
  /\ renderFrame

\* await loadingTask.promise settled; a rejection goes to the catch block
GetDocumentSettled(c) ==
  /\ render.calls[c].pc = "getDocument"
  /\ render' =
       IF render.calls[c].pdf = "bad"
       THEN [render EXCEPT !.calls[c].pc = "done",
                           !.container = << ErrorParagraph >>]
       ELSE [render EXCEPT !.calls[c].pc = "getFirstPage"]
  /\ renderFrame

\* await pdf.getPage(1) settled: the scale, then renderInitialPdfPages up
\* to its first await
FirstPageSettled(c) ==
  /\ render.calls[c].pc = "getFirstPage"
  /\ render' = [render EXCEPT !.calls[c].pc = "getPage",
                              !.calls[c].pageNum = 1]
  /\ renderFrame

\* await pdf.getPage(pageNum) settled: the canvas is appended to the
\* container and pushed to pageDetails, then page.render starts
GetPageSettled(c) ==
  /\ render.calls[c].pc = "getPage"
  /\ \E canvas \in { Canvas(render.calls[c].pdf, render.calls[c].pageNum) } :
       render' = [render EXCEPT !.calls[c].pc = "render",
                                !.container = Append(@, canvas),
                                !.pageDetails = Append(@, canvas)]
  /\ renderFrame

\* await page.render(..).promise settled: the next page, or the end
RenderSettled(c) ==
  /\ render.calls[c].pc = "render"
  /\ render' =
       IF render.calls[c].pageNum < numPages(render.calls[c].pdf)
       THEN [render EXCEPT !.calls[c].pc = "getPage",
                           !.calls[c].pageNum = @ + 1]
       ELSE [render EXCEPT !.calls[c].pc = "done",
                           !.isPdfRendered = TRUE]
  /\ renderFrame

NextRender ==
  \/ \E newPdfData \in PdfNames : PdfDataChanged(newPdfData)
  \/ \E c \in DOMAIN render.calls : GetDocumentSettled(c)
  \/ \E c \in DOMAIN render.calls : FirstPageSettled(c)
  \/ \E c \in DOMAIN render.calls : GetPageSettled(c)
  \/ \E c \in DOMAIN render.calls : RenderSettled(c)

RenderSpec == InitRender /\ [][NextRender]_vars


\* ------------------------------------------------------------------------
\* Properties
\* ------------------------------------------------------------------------
HasEvent(inv, kind) == \E j \in DOMAIN inv.trace : inv.trace[j].ev = kind

HasLog(inv, entry) == \E j \in DOMAIN inv.trace : inv.trace[j] = entry

\* The payload an invocation emitted
PayloadOf(inv) ==
  inv.trace[CHOOSE j \in DOMAIN inv.trace : inv.trace[j].ev = "emit"].payload

\* The document an invocation is working on, or worked on last
CurrentDoc(inv) == inv.docs[inv.docIdx]

\* The placement loop of the current document ran to its end
DrawingDone(inv) ==
  /\ inv.sig # Null
  /\ inv.pdfDoc # Null
  /\ \E j \in DOMAIN inv.trace :
       inv.trace[j] = [ev |-> "serialise", key |-> CurrentDoc(inv).key]

\* The placements of a list whose page exists in a document of n pages
InRangeOnly(placements, n) ==
  SelectSeq(placements, LAMBDA pl : pl.page >= 1 /\ pl.page <= n)

\* The pages after drawing every placement of a list of in-range placements
RECURSIVE DrawnOnPages(_, _, _, _)
DrawnOnPages(pages, placements, i, sig) ==
  IF i > Len(placements) THEN pages
  ELSE DrawnOnPages(DrawPlacement(pages, placements[i].page - 1,
                                  placements[i], sig).pages,
                    placements, i + 1, sig)

HasBadPage(doc) ==
  Len(InRangeOnly(PlacementsOrDefault(doc.placements), Len(doc.data.pages)))
    < Len(PlacementsOrDefault(doc.placements))

NothingDrawn(pages) == \A n \in DOMAIN pages : pages[n].ops = <<>>

\* The PDF of a document cannot be loaded, drawn on or serialised
Faulty(doc) ==
  \/ ~doc.data.parses
  \/ ~doc.data.serialises
  \/ \E n \in DOMAIN doc.data.pages : doc.data.pages[n].userUnit.kind = "notnum"

\* The invocation failed between PDFDocument.load and saveAsBase64
FailedBeforeSerialise(inv) ==
  /\ inv.outcome = "failed"
  /\ Len(inv.trace) >= 2
  /\ inv.trace[Len(inv.trace) - 1].ev # "serialise"

\* C1: every saveDocument invocation that set isSaving ends, with isSaving
\* false afterwards, on every exit path (finish emitted, early return for
\* markup without <svg> or <path>, exception while loading, drawing or
\* serialising), and no invocation ends by rejecting.
C1_SavingReleased ==
  /\ [](\A i \in DOMAIN saves :
          /\ saves[i].outcome \in {"running", "noop", "invalid", "emitted", "failed"}
          /\ saves[i].pc # "done" => isSaving)
  /\ []<>(~isSaving)

\* A save that failed while serialising has returned and released the flag.
C1_Witness ==
  \E i \in DOMAIN saves :
    /\ saves[i].outcome = "failed"
    /\ HasEvent(saves[i], "serialise")
    /\ ~isSaving

C3_BatchSurvivesFailure ==
  \A i \in DOMAIN saves :
    (mode = "multi" /\ saves[i].pc = "done" /\ HasEvent(saves[i], "load"))
      => /\ HasEvent(saves[i], "emit")
         /\ \A k \in DOMAIN saves[i].resultsMap : k \in DOMAIN PayloadOf(saves[i])

\* C4: in single-document mode a save that fails (the PDF does not parse,
\* does not serialise, ...) logs the error, emits no finish, leaves the
\* captured signature (SVG and PNG) as it was and leaves isSaving false.
C4_SingleFailsWhole ==
  [][\A i \in DOMAIN saves :
       (/\ mode = "single"
        /\ Running(i)
        /\ i \in DOMAIN saves'
        /\ saves'[i].outcome = "failed")
       => /\ ~HasEvent(saves'[i], "emit")
          /\ saves'[i].trace[Len(saves'[i].trace)] = Error("Failed to save document")
          /\ signatureSvg' = signatureSvg
          /\ signaturePng' = signaturePng
          /\ isSaving' = FALSE]_vars

\* A single-document save that failed in saveAsBase64, signature still stored.
C4_Witness ==
  \E i \in DOMAIN saves :
    /\ mode = "single"
    /\ saves[i].outcome = "failed"
    /\ HasEvent(saves[i], "serialise")
    /\ ~CurrentDoc(saves[i]).data.serialises
    /\ signatureSvg # Null
    /\ ~isSaving

\* C5: a placement whose page is below 1 or above the page count is skipped
\* with a warning: the pages of the document are drawn exactly as for the
\* list without such placements, the bad page number never makes the save
\* fail, and the emitted documents carry exactly those drawings.
C5_BadPageSkipped ==
  \A i \in DOMAIN saves :
    LET inv == saves[i] IN
    /\ DrawingDone(inv) =>
         LET doc  == CurrentDoc(inv)
             good == InRangeOnly(PlacementsOrDefault(doc.placements),
                                 Len(doc.data.pages))
         IN /\ inv.pdfDoc.pages = DrawnOnPages(doc.data.pages, good, 1, inv.sig)
            /\ HasBadPage(doc) => HasLog(inv, Warn("Invalid page number"))
    /\ FailedBeforeSerialise(inv) => Faulty(CurrentDoc(inv))
    /\ (mode = "multi" /\ inv.outcome = "emitted") =>
         \A n \in DOMAIN inv.docs :
           inv.docs[n].key \in DOMAIN PayloadOf(inv) =>
             PayloadOf(inv)[inv.docs[n].key].signedDocument.data.pages =
               DrawnOnPages(inv.docs[n].data.pages,
                            InRangeOnly(PlacementsOrDefault(inv.docs[n].placements),
                                        Len(inv.docs[n].data.pages)),
                            1, inv.sig)

\* A document with out-of-range placements was drawn on and emitted.
C5_Witness ==
  \E i \in DOMAIN saves :
    /\ saves[i].outcome = "emitted"
    /\ DrawingDone(saves[i])
    /\ HasBadPage(CurrentDoc(saves[i]))
    /\ ~NothingDrawn(saves[i].pdfDoc.pages)
    /\ HasLog(saves[i], Warn("Invalid page number"))

\* C6: a save whose signature markup has no <svg> element or no <path>
\* element emits no finish and serialises no document: finish and
\* saveAsBase64 happen only for markup with at least one path.
C6_NoPathsNoResult ==
  \A i \in DOMAIN saves :
    /\ (HasEvent(saves[i], "emit") \/ HasEvent(saves[i], "serialise"))
         => saves[i].sig # Null /\ Len(saves[i].sig.paths) > 0
    /\ saves[i].outcome = "invalid"
         => ~HasEvent(saves[i], "emit") /\ ~HasEvent(saves[i], "serialise")

\* A save of markup with zero paths returned early.
C6_Witness ==
  \E i \in DOMAIN saves :
    /\ saves[i].outcome = "invalid"
    /\ signatureSvg # Null
    /\ Len(signatureSvg.paths) = 0
    /\ ~isSaving

\* C7: with a signature box of zero width or zero height every placement is
\* skipped (nothing is drawn on any page), the remaining placements and
\* documents are still processed, and the save does not fail because of it.
C7_ZeroBoxSkipped ==
  \A i \in DOMAIN saves :
    LET inv == saves[i] IN
    (inv.sig # Null /\ ZeroSizedBox(SourceBox(inv.sig.union, inv.sig.vb))) =>
      /\ inv.pdfDoc # Null => NothingDrawn(inv.pdfDoc.pages)
      /\ \A k \in DOMAIN inv.resultsMap :
           NothingDrawn(inv.resultsMap[k].signedDocument.data.pages)
      /\ FailedBeforeSerialise(inv) => Faulty(CurrentDoc(inv))
      /\ DrawingDone(inv) => HasLog(inv, Warn("Zero-sized source box"))
      /\ (mode = "multi" /\ inv.outcome = "emitted") =>
           inv.signedAtCall \cap Keys(inv.docs) \subseteq DOMAIN PayloadOf(inv)

\* A save with a zero-height box went through all documents and emitted.
C7_Witness ==
  \E i \in DOMAIN saves :
    /\ saves[i].sig # Null
    /\ saves[i].sig.union.height.m = 0
    /\ saves[i].sig.union.width.m # 0
    /\ saves[i].outcome = "emitted"
    /\ HasLog(saves[i], Warn("Zero-sized source box"))

\* C8: when every placement of a newly signed document was skipped (nothing
\* drawn on it), the document has no entry in the finish payload.
C8_UndrawnDocumentLeftOut ==
  \A i \in DOMAIN saves :
    (mode = "multi" /\ saves[i].outcome = "emitted") =>
      \A k \in DOMAIN PayloadOf(saves[i]) :
        ~NothingDrawn(PayloadOf(saves[i])[k].signedDocument.data.pages)

\* a <= b * (1 + 2^(2 - Prec)) for positive a and b, computed exactly
WithinRounding(a, b) ==
  LET l == a.m * Pow2(Prec - 2)
      r == b.m * (Pow2(Prec - 2) + 1)
  IN IF a.e - b.e > 2 THEN FALSE
     ELSE IF b.e - a.e > 2 THEN TRUE
     ELSE IF a.e >= b.e THEN l * Pow2(a.e - b.e) <= r
     ELSE l <= r * Pow2(b.e - a.e)

\* C9 as stated: the scaled signature is never wider or higher than the
\* target box.
C9_NeverOverflows ==
  geom.stage = "fit" =>
    /\ FLeq(geom.fit.scaledWidth, geom.t.targetWidth)
    /\ FLeq(geom.fit.scaledHeight, geom.t.targetHeight)

\* C9 as amended: on a page whose user unit is positive the scaled
\* signature exceeds the target box on neither axis by more than the
\* rounding error of the division and the multiplication (a factor 1 + 4
\* units in the last place of the mantissa).
C9_OverflowsByRoundingOnly ==
  (geom.stage = "fit" /\ FLess(FZero, geom.userUnit)) =>
    /\ WithinRounding(geom.fit.scaledWidth, geom.t.targetWidth)
    /\ WithinRounding(geom.fit.scaledHeight, geom.t.targetHeight)

\* A fit whose scaled width is above the target width.
C9_Witness ==
  /\ geom.stage = "fit"
  /\ FLess(FZero, geom.userUnit)
  /\ FLess(geom.t.targetWidth, geom.fit.scaledWidth)

\* The operators on a page, up to index j, leave a clip active
ClipActiveAt(ops, j) ==
  \E c \in 1..(j - 1) :
    /\ ops[c].op = "clip"
    /\ \A u \in (c + 1)..(j - 1) : ops[u].op # "unclip"

\* C10: every path is drawn while the clip of its placement is active, and
\* no clip is left active after a placement.
C10_DrawnInsideClip ==
  \A i \in DOMAIN saves :
    saves[i].pdfDoc # Null =>
      \A n \in DOMAIN saves[i].pdfDoc.pages :
        LET ops == saves[i].pdfDoc.pages[n].ops IN
        /\ \A j \in DOMAIN ops : ops[j].op = "drawSvgPath" => ClipActiveAt(ops, j)
        /\ ~ClipActiveAt(ops, Len(ops) + 1)

\* C11: a UserUnit entry that is absent, zero or not a number is replaced
\* by 1.0 and never makes the save fail: a save that fails between load and
\* serialise works on a PDF whose pages all have a readable UserUnit.
C11_BadUserUnitTolerated ==
  \A i \in DOMAIN saves :
    FailedBeforeSerialise(saves[i]) =>
      \A n \in DOMAIN CurrentDoc(saves[i]).data.pages :
        CurrentDoc(saves[i]).data.pages[n].userUnit.kind # "notnum"

\* C12: the user unit the placement is divided by is above 0 whatever the
\* page's UserUnit entry holds, so the target box of a placement (width and
\* height above 0) has a width and a height above 0.
C12_UserUnitPositive ==
  geom.stage \in {"target", "skipped", "fit"} =>
    /\ FLess(FZero, geom.userUnit)
    /\ FLess(FZero, geom.t.targetWidth)
    /\ FLess(FZero, geom.t.targetHeight)

\* C13: a document with an empty placement list is drawn on with the one
\* placement {left 5, top 7, width 8, height 4, page 1}, a document with a
\* non-empty list with its own placements only; the overlay lays out the
\* same placements as the save draws.
C13_DefaultPlacement ==
  /\ \A i \in DOMAIN saves :
       DrawingDone(saves[i]) =>
         LET doc  == CurrentDoc(saves[i])
             used == IF Len(doc.placements) = 0
                     THEN << Placement(5, 7, 8, 4, 1) >>
                     ELSE doc.placements
         IN saves[i].pdfDoc.pages =
              DrawnOnPages(doc.data.pages,
                           InRangeOnly(used, Len(doc.data.pages)), 1, saves[i].sig)
  /\ documents # <<>> =>
       /\ OverlayPlacements(SignatureData) = PlacementsOrDefault(SignatureData)
       /\ SignatureData = <<>> =>
            OverlayPlacements(SignatureData) = << Placement(5, 7, 8, 4, 1) >>

\* A document without placements was drawn on, on page 1.
C13_Witness ==
  \E i \in DOMAIN saves :
    /\ DrawingDone(saves[i])
    /\ CurrentDoc(saves[i]).placements = <<>>
    /\ saves[i].pdfDoc.pages[1].ops # <<>>
    /\ SignatureData = <<>>

\* The load and serialise calls of an invocation, in the order made
LoadSaveEvents(inv) ==
  SelectSeq(inv.trace, LAMBDA e : e.ev \in {"load", "serialise"})

\* The position of the document with key k in a document list
IndexOfKey(docs, k) == CHOOSE n \in DOMAIN docs : docs[n].key = k

\* C14: a batch save works on one document at a time, in the order of the
\* documents list: its calls are load, serialise, load, serialise, ..., each
\* serialise for the document loaded just before, each load for a document
\* later in the list than the one before, and a load is made only when the
\* results of all documents loaded earlier are stored.
C14_OneDocumentAtATime ==
  \A i \in DOMAIN saves :
    mode = "multi" =>
      LET es == LoadSaveEvents(saves[i]) IN
      \A j \in DOMAIN es :
        /\ j % 2 = 1 =>
             /\ es[j].ev = "load"
             /\ j > 2 => IndexOfKey(saves[i].docs, es[j - 2].key)
                           < IndexOfKey(saves[i].docs, es[j].key)
             /\ \A u \in 1..(j - 1) : es[u].key \in DOMAIN saves[i].resultsMap
        /\ j % 2 = 0 =>
             /\ es[j].ev = "serialise"
             /\ es[j].key = es[j - 1].key

\* A batch that loaded a second document after serialising the first.
C14_Witness ==
  \E i \in DOMAIN saves :
    /\ mode = "multi"
    /\ Len(LoadSaveEvents(saves[i])) >= 3
    /\ saves[i].pc = "loading"

\* C15: every document of a finish payload carries the vector signature
\* and the signature image of a capture stored while that document was the
\* active one.
C15_OwnSignaturePerDocument ==
  \A i \in DOMAIN saves :
    (mode = "multi" /\ saves[i].outcome = "emitted") =>
      \A k \in DOMAIN PayloadOf(saves[i]) :
        /\ saves[i].sig.id \in capturedFor[k]
        /\ PayloadOf(saves[i])[k].signatureImage.data \in capturedFor[k]

\* C16: in multi-document mode the Save button is enabled exactly when a
\* signature is currently held, no save is running and the policy is met:
\* under 'all' every document that was not pre-signed is newly signed,
\* under 'any' at least one document is newly signed.
PolicyMet ==
  IF signingPolicy = "all"
  THEN \A i \in DOMAIN documents :
         documents[i].signed \/ documents[i].key \in newlySignedKeys
  ELSE newlySignedKeys # {}

PagesKept(doc, pages) ==
  /\ Len(pages) = Len(doc.data.pages)
  /\ \A n \in DOMAIN pages :
       /\ pages[n].height = doc.data.pages[n].height
       /\ pages[n].userUnit = doc.data.pages[n].userUnit
       /\ pages[n].ops # <<>> =>
            \E j \in DOMAIN PlacementsOrDefault(doc.placements) :
              PlacementsOrDefault(doc.placements)[j].page = n

C17_PagesPreserved ==
  \A i \in DOMAIN saves :
    LET inv == saves[i] IN
    /\ inv.pdfDoc # Null => PagesKept(CurrentDoc(inv), inv.pdfDoc.pages)
    /\ (mode = "multi" /\ inv.outcome = "emitted") =>
         \A n \in DOMAIN inv.docs :
           inv.docs[n].key \in DOMAIN PayloadOf(inv) =>
             PagesKept(inv.docs[n],
                       PayloadOf(inv)[inv.docs[n].key].signedDocument.data.pages)
    /\ (mode = "single" /\ inv.outcome = "emitted") =>
         PagesKept(inv.docs[1], PayloadOf(inv).signedDocument.data.pages)

\* A document was drawn on, emitted, and one of its pages was left alone.
C17_Witness ==
  \E i \in DOMAIN saves :
    /\ saves[i].outcome = "emitted"
    /\ DrawingDone(saves[i])
    /\ \E n, m \in DOMAIN saves[i].pdfDoc.pages :
         /\ saves[i].pdfDoc.pages[n].ops # <<>>
         /\ saves[i].pdfDoc.pages[m].ops = <<>>

\* C18: left, top, width and height of a placement are converted to points
\* with the one factor (72/2.54)/userUnit of the page, and on a page with
\* UserUnit 2 every converted value is exactly half of the value that
\* 72/2.54 alone gives.
Half(x) == FDiv(x, FromInt(2))

C18_SameFactorHalved ==
  geom.stage \in {"target", "skipped", "fit"} =>
    LET factor == FDiv(CM_TO_POINTS, geom.userUnit)
        pl     == geom.placement
    IN /\ geom.t.targetWidth = FMul(pl.width, factor)
       /\ geom.t.targetHeight = FMul(pl.height, factor)
       /\ geom.t.targetX = FMul(pl.left, factor)
       /\ geom.t.targetY =
            FSub(FSub(geom.page.height, FMul(pl.top, factor)),
                 geom.t.targetHeight)
       /\ geom.page.userUnit = UUNum(FromInt(2)) =>
            /\ geom.t.targetWidth = Half(FMul(pl.width, CM_TO_POINTS))
            /\ geom.t.targetHeight = Half(FMul(pl.height, CM_TO_POINTS))
            /\ geom.t.targetX = Half(FMul(pl.left, CM_TO_POINTS))
            /\ geom.t.targetY =
                 FSub(FSub(geom.page.height,
                           Half(FMul(pl.top, CM_TO_POINTS))),
                      geom.t.targetHeight)

\* A target box was resolved on a page with UserUnit 2.
C18_Witness ==
  /\ geom.stage = "target"
  /\ geom.page.userUnit = UUNum(FromInt(2))
  /\ geom.userUnit = FromInt(2)
  /\ FLess(FZero, geom.t.targetX)

\* C19: the markup a save parses always declares a viewBox, and the scale
\* and the offsets of every drawn path are nevertheless computed from the
\* union bounding box of the paths: the declared box is parsed and not
\* used.
DrawnFrom(op, placement, page, boxW, boxH, offX, offY) ==
  With(Fit(TargetBox(placement, page.height, UserUnitOf(page).v),
           [boxW |-> boxW, boxH |-> boxH]),
       LAMBDA fit :
         /\ op.scale = fit.scale
         /\ op.x = FSub(fit.centeredX, FMul(offX, fit.scale))
         /\ op.y = FAdd(FAdd(fit.centeredY, fit.scaledHeight),
                        FMul(offY, fit.scale)))

\* Every path drawn by an invocation is fitted from the given source box
AllDrawnFrom(inv, boxW, boxH, offX, offY) ==
  \A n \in DOMAIN inv.pdfDoc.pages :
    \A o \in DOMAIN inv.pdfDoc.pages[n].ops :
      \E j \in DOMAIN PlacementsOrDefault(CurrentDoc(inv).placements) :
        /\ PlacementsOrDefault(CurrentDoc(inv).placements)[j].page = n
        /\ DrawnFrom(inv.pdfDoc.pages[n].ops[o],
                     PlacementsOrDefault(CurrentDoc(inv).placements)[j],
                     CurrentDoc(inv).data.pages[n],
                     boxW, boxH, offX, offY)

C19_UnionBoxAlways ==
  /\ signatureSvg # Null => signatureSvg.viewBox.kind = "vb"
  /\ \A i \in DOMAIN saves :
       DrawingDone(saves[i]) =>
         AllDrawnFrom(saves[i], saves[i].sig.union.width,
                      saves[i].sig.union.height,
                      saves[i].sig.union.minX, saves[i].sig.union.minY)

\* C19 as stated: the markup declares a viewBox, so the scale and the
\* offsets of every drawn path are computed from the declared box.
C19_DeclaredBoxUsed ==
  \A i \in DOMAIN saves :
    DrawingDone(saves[i]) =>
      AllDrawnFrom(saves[i], FSub(saves[i].sig.vb.w, saves[i].sig.vb.x),
                   FSub(saves[i].sig.vb.h, saves[i].sig.vb.y),
                   saves[i].sig.vb.x, saves[i].sig.vb.y)

\* Paths were drawn from markup whose declared box is not the union box.
C19_Witness ==
  \E i \in DOMAIN saves :
    /\ saves[i].outcome = "emitted"
    /\ DrawingDone(saves[i])
    /\ ~NothingDrawn(saves[i].pdfDoc.pages)
    /\ saves[i].sig.union.width # FSub(saves[i].sig.vb.w, saves[i].sig.vb.x)

\* C20: a capture whose markup has no path element is not stored: the
\* current signature, when there is one, has at least one path, and the
\* Save button is enabled only with such a signature.
C20_PathlessNeverStored ==
  /\ signatureSvg # Null => Len(signatureSvg.paths) > 0
  /\ ~SaveDisabled => (signatureSvg # Null /\ Len(signatureSvg.paths) > 0)

\* C21: in single-document mode the signature image of an emitted payload
\* and the paths drawn into its signed PDF come from the same capture, also
\* when a new signature is confirmed while the save is suspended.
C21_ImageMatchesPaths ==
  \A i \in DOMAIN saves :
    (mode = "single" /\ saves[i].outcome = "emitted") =>
      PayloadOf(saves[i]).signatureImage.data = saves[i].sig.id

\* C22: at most one saveDocument invocation is between setting isSaving
\* and its finally block at any time, and while one is there isSaving is
\* true, so that the Save button is disabled.
RunningSaves == { i \in DOMAIN saves : saves[i].pc # "done" }

C22_NoOverlappingSaves ==
  /\ Cardinality(RunningSaves) <= 1
  /\ RunningSaves # {} => (isSaving /\ SaveDisabled)

\* A save is suspended in the serialisation while a signature is held and
\* the pad is open: only isSaving keeps the Save button disabled.
C22_Witness ==
  /\ \E i \in RunningSaves : saves[i].pc = "serialising"
  /\ signatureSvg # Null
  /\ isSignaturePadOpen
  /\ mode = "multi" => isFinishEnabled

\* C23: an invocation emits finish at most once and as its last act; an
\* invocation that returned early or failed has emitted nothing; and at
\* the emit every document that was loaded has been serialised after its
\* load, and every emitted document carries the drawings of all its
\* in-range placements.
EmitsOf(inv) == { j \in DOMAIN inv.trace : inv.trace[j].ev = "emit" }

FullyDrawn(doc, pages, sig) ==
  pages = DrawnOnPages(doc.data.pages,
                       InRangeOnly(PlacementsOrDefault(doc.placements),
                                   Len(doc.data.pages)),
                       1, sig)

C23_EmitOnceWhenDone ==
  \A i \in DOMAIN saves :
    LET inv == saves[i] IN
    /\ Cardinality(EmitsOf(inv)) <= 1
    /\ inv.outcome # "emitted" => EmitsOf(inv) = {}
    /\ inv.outcome = "emitted" =>
         /\ EmitsOf(inv) = {Len(inv.trace)}
         /\ \A j \in DOMAIN inv.trace :
              inv.trace[j].ev = "load" =>
                \E k \in DOMAIN inv.trace :
                  /\ k > j
                  /\ inv.trace[k] = [ev |-> "serialise", key |-> inv.trace[j].key]
         /\ IF mode = "multi"
            THEN \A n \in DOMAIN inv.docs :
                   inv.docs[n].key \in DOMAIN PayloadOf(inv) =>
                     FullyDrawn(inv.docs[n],
                                PayloadOf(inv)[inv.docs[n].key].signedDocument.data.pages,
                                inv.sig)
            ELSE FullyDrawn(inv.docs[1],
                            PayloadOf(inv).signedDocument.data.pages, inv.sig)

\* A batch of two documents, one with placements on two pages, was emitted.
C23_Witness ==
  \E i \in DOMAIN saves :
    /\ saves[i].outcome = "emitted"
    /\ mode = "multi"
    /\ Cardinality(DOMAIN PayloadOf(saves[i])) >= 2
    /\ \E k \in DOMAIN PayloadOf(saves[i]) :
         \A n \in DOMAIN PayloadOf(saves[i])[k].signedDocument.data.pages :
           PayloadOf(saves[i])[k].signedDocument.data.pages[n].ops # <<>>

\* C24: when pdfData changed while an earlier loadAndRenderPdf call was
\* suspended (every PDF being one that pdfjs accepts), then after all
\* calls have finished the container and the page list hold exactly the
\* pages of the PDF requested last, each once and in page order.
PagesOf(pdf) == [n \in 1..numPages(pdf) |-> Canvas(pdf, n)]

C24_LatestPdfOnly ==
  ( /\ render.overlapped
    /\ \A c \in DOMAIN render.calls :
         render.calls[c].pc = "done" /\ render.calls[c].pdf # "bad" ) =>
      /\ render.container = PagesOf(render.pdfData)
      /\ render.pageDetails = PagesOf(render.pdfData)

\* C25: in multi-document mode, whenever the Save button is enabled the
\* guard of saveDocument passes: a signature SVG and PNG are held and the
\* newly-signed set is not empty.
C25_EnabledSavePassesGuard ==
  (mode = "multi" /\ ~SaveDisabled) =>
    /\ signatureSvg # Null
    /\ signaturePng # Null
    /\ newlySignedKeys # {}

C27_KeysWithinDocuments ==
  mode = "multi" =>
    /\ newlySignedKeys \subseteq Keys(documents)
    /\ activeDocumentKey \in Keys(documents) \cup {NoKey}

\* A document was signed after the host had replaced the list by one
\* without the first document.
C27_Witness ==
  /\ mode = "multi"
  /\ documents # << >>
  /\ 1 \notin Keys(documents)
  /\ newlySignedKeys # {}

\* C28: a step that changes the documents list empties the newly-signed
\* set and makes the first document that is not pre-signed the active one,
\* else the first document, else none; a step that changes the active key
\* clears the signature SVG and PNG, and leaves the newly-signed set as it
\* is unless the list was replaced in the same step (a replacement by an
\* equal list is seen only by its effect).
FirstChoice(docs) ==
  IF \E n \in DOMAIN docs : ~docs[n].signed
  THEN docs[CHOOSE n \in DOMAIN docs :
              ~docs[n].signed /\ \A m \in 1..(n - 1) : docs[m].signed].key
  ELSE IF docs # << >> THEN docs[1].key
  ELSE NoKey

C28_WatchersReset ==
  [][ mode = "multi" =>
        /\ documents' # documents =>
             /\ newlySignedKeys' = {}
             /\ activeDocumentKey' = FirstChoice(documents')
        /\ activeDocumentKey' # activeDocumentKey =>
             /\ signatureSvg' = Null
             /\ signaturePng' = Null
             /\ documents' = documents =>
                  \/ newlySignedKeys' = newlySignedKeys
                  \/ /\ newlySignedKeys' = {}
                     /\ activeDocumentKey' = FirstChoice(documents')
    ]_vars

\* The host has replaced the list by one without the first document while
\* the pad was open: its first document is active, nothing is signed and
\* no signature is held.
C28_Witness ==
  /\ mode = "multi"
  /\ documents # << >>
  /\ 1 \notin Keys(documents)
  /\ activeDocumentKey = documents[1].key
  /\ newlySignedKeys = {}
  /\ signatureSvg = Null
  /\ isSignaturePadOpen

\* C29: the body scroll lock equals the open state of the signature pad in
\* every reachable state, every step that opens or closes the pad sets the
\* lock to the new open state, and a cancel leaves the stored signature
\* SVG and PNG unchanged.
C29_LockFollowsPad ==
  /\ [](isLocked = isSignaturePadOpen)
  /\ [][ /\ isSignaturePadOpen' # isSignaturePadOpen =>
               isLocked' = isSignaturePadOpen'
         /\ HandleSignatureCancel =>
               (signatureSvg' = signatureSvg /\ signaturePng' = signaturePng)
       ]_vars

\* The pad was opened and closed again, by a capture without <svg>: the
\* active document is marked, no signature is held, the lock is released.
C29_Witness ==
  /\ ~isSignaturePadOpen
  /\ ~isLocked
  /\ signatureSvg = Null
  /\ activeDocumentKey \in newlySignedKeys

\* Exact arithmetic on floating-point values: the value of f in units of
\* 2^k, an integer when k is at most the exponent of f.
ExpsOf(fs) == { f.e : f \in { x \in fs : x.m # 0 } }

MinExp(fs) ==
  IF ExpsOf(fs) = {} THEN 0
  ELSE CHOOSE e \in ExpsOf(fs) : \A g \in ExpsOf(fs) : e <= g

Fixed(f, k) == f.m * Pow2(f.e - k)

\* One axis of the fit, in exact arithmetic: the box [lo, lo + size], the
\* origin c and the extent scaled of the signature.  Free space before
\* minus free space after is 2c + scaled - 2lo - size.
AxisExact(lo, size, c, scaled) ==
  With(MinExp({lo, size, c, scaled}), LAMBDA k :
    /\ 2 * Fixed(c, k) + Fixed(scaled, k) = 2 * Fixed(lo, k) + Fixed(size, k)
    /\ Fixed(lo, k) <= Fixed(c, k)
    /\ Fixed(c, k) + Fixed(scaled, k) <= Fixed(lo, k) + Fixed(size, k))

\* The same up to rounding: within mag * 2^(2 - Prec)
AxisWithinRounding(lo, size, c, scaled, mag) ==
  With(MinExp({lo, size, c, scaled, mag}), LAMBDA k :
    With(Fixed(mag, k) \div Pow2(Prec - 2), LAMBDA tol :
      /\ Abs(2 * Fixed(c, k) + Fixed(scaled, k)
               - 2 * Fixed(lo, k) - Fixed(size, k)) <= tol
      /\ Fixed(lo, k) - tol <= Fixed(c, k)
      /\ Fixed(c, k) + Fixed(scaled, k) <= Fixed(lo, k) + Fixed(size, k) + tol))

\* top of the placement in points
TopPts == FMul(geom.placement.top, FDiv(CM_TO_POINTS, geom.userUnit))

\* C30 as amended: on a page whose user unit is positive, targetY is
\* pageHeight - top - targetHeight as the floating-point subtractions give
\* it, and the scaled signature is centred in the target box and lies
\* inside it up to rounding: within 2^(2 - Prec) times targetX + targetWidth
\* horizontally and times the page height vertically.
C30_CentredUpToRounding ==
  (geom.stage = "fit" /\ FLess(FZero, geom.userUnit)) =>
    /\ geom.t.targetY =
         FSub(FSub(geom.page.height, TopPts), geom.t.targetHeight)
    /\ AxisWithinRounding(geom.t.targetX, geom.t.targetWidth,
                          geom.fit.centeredX, geom.fit.scaledWidth,
                          FAdd(geom.t.targetX, geom.t.targetWidth))
    /\ AxisWithinRounding(geom.t.targetY, geom.t.targetHeight,
                          geom.fit.centeredY, geom.fit.scaledHeight,
                          geom.page.height)

\* C30 as stated: targetY is pageHeight - top - targetHeight, the free
\* space on both sides of the scaled signature is exactly equal on either
\* axis, and the scaled signature lies inside the target box.
C30_CentredInside ==
  geom.stage = "fit" =>
    /\ geom.t.targetY =
         FSub(FSub(geom.page.height, TopPts), geom.t.targetHeight)
    /\ AxisExact(geom.t.targetX, geom.t.targetWidth,
                 geom.fit.centeredX, geom.fit.scaledWidth)
    /\ AxisExact(geom.t.targetY, geom.t.targetHeight,
                 geom.fit.centeredY, geom.fit.scaledHeight)

\* A fit that leaves free space: the signature is less than half as wide
\* as the target box.
C30_Witness ==
  /\ geom.stage = "fit"
  /\ FLess(FZero, geom.userUnit)
  /\ FLess(FMul(FromInt(2), geom.fit.scaledWidth), geom.t.targetWidth)
  /\ FLess(geom.t.targetX, geom.fit.centeredX)

====
